---- MODULE Spec2Model ----
(***************************************************************************)
(* A model of foa3d/pipeline.py: the resource-aware volume store           *)
(* (init_volume, init_frangi_volumes, init_odf_volumes), the tile worker   *)
(* (fiber_analysis), the tile scheduler (parallel_frangi_on_slices), the   *)
(* artifact writers (save_frangi_arrays, save_odf_arrays), the ODF pass    *)
(* (odf_analysis, parallel_odf_on_scales), and the pure functions          *)
(* compute_fractional_anisotropy, mask_background and                      *)
(* input.load_microscopy_image.                                            *)
(*                                                                         *)
(* Conventions.  A Python None in an integer position is NoneInt (-1): the *)
(* integers it stands beside (z_max, max_ram_mb) are never negative.  A    *)
(* Python slice(start, stop, 1) is the record [start, stop].  An array     *)
(* index is a tuple <<z, y, x>> (with a fourth component for the trailing  *)
(* axis of the vector volumes), counted from 0 as in the code.             *)
(***************************************************************************)
EXTENDS Integers, Sequences, FiniteSets, TLC

VARIABLES
    \* ---- volume store, called on its own (init_volume) ----
    vs_call,         \* the arguments of one init_volume call
    vs_ret,          \* what the call returned (NotCalled before it)
    \* ---- a pure function of the pipeline, called on its own ----
    fn_call,         \* the function and its arguments
    fn_ret,          \* what the call returned or raised (NotCalled before it)
    \* ---- inputs of one filtering pass (parallel_frangi_on_slices) ----
    img,             \* the fiber channel of the input image: index -> grey value
    img_shape,       \* <<Z, Y, X>>
    px_rsz_ratio,    \* per-axis resize ratio px_size / px_size_iso, as <<num, den>>
    in_slice_shape,  \* the slice shape the planner derived from the RAM budget
    halo,            \* the halo radius the planner derived from the filter scales
    z_min, z_max,    \* forced output z-range (z_max = NoneInt: not given)
    lpf_soma_mask,
    max_ram_mb,      \* NoneInt: use the available RAM
    avail_ram,       \* psutil.virtual_memory()[1], bytes
    jobs,
    \* ---- state of the pass ----
    pc,              \* where parallel_frangi_on_slices is
    plan,            \* what config_frangi_slicing returned
    vols,            \* the output volumes: name -> array object (or PyNone)
    data,            \* their contents: name -> (index -> value)
    fiber_dset_path,
    z_sel,
    tile,            \* per tile: the position of its fiber_analysis call
    runs,            \* per tile: how many fiber_analysis calls were submitted
    targs,           \* per tile: the arguments its fiber_analysis call was given
    wrote,           \* per tile: the indices its write-back has written
    raised,          \* the tiles whose fiber_analysis raised
    save_dir,        \* the artifacts written to the save directory
    \* ---- ODF pass (parallel_odf_on_scales) ----
    odf_in,          \* its inputs
    odf_pc,          \* where parallel_odf_on_scales is
    odf_norm,        \* the spherical-harmonics normalization factors
    odf_w,           \* per requested scale: the state of its odf_analysis call
    odf_saved        \* the ODF artifacts written to the save directory

vs_vars == <<vs_call, vs_ret>>
fn_vars == <<fn_call, fn_ret>>
in_vars == <<img, img_shape, px_rsz_ratio, in_slice_shape, halo, z_min, z_max,
             lpf_soma_mask, max_ram_mb, avail_ram, jobs>>
pass_vars == <<pc, plan, vols, data, fiber_dset_path, z_sel, tile, runs, targs,
               wrote, raised, save_dir>>
odf_vars == <<odf_in, odf_pc, odf_norm, odf_w, odf_saved>>
vars == <<vs_vars, fn_vars, in_vars, pass_vars, odf_vars>>

-----------------------------------------------------------------------------
(* Bounds of the model *)

MaxZ == 3          \* image depth
MaxY == 2          \* image height
MaxHalo == 1       \* halo radius
MaxZMin == 1       \* forced minimum z-depth
MaxJobs == 2       \* worker count
MaxTiles == 4      \* number of planned tiles
MaxFaults == 1     \* number of tiles whose filtering raises
SmallRam == 16     \* a small amount of available RAM, bytes
MaxSlabs == 4      \* init_volume on its own: depth of the shape
MaxScaleUm == 3    \* ODF pass: super-voxel side, micrometres
MaxPxIso == 2      \* ODF pass: isotropic pixel size, micrometres
MaxCpu == 2        \* ODF pass: logical cores
MaxEig == 2        \* fractional anisotropy: largest eigenvalue magnitude
MaskVox == 3       \* masking: voxels of a slice
MaxGrey == 2       \* masking: largest grey value
TileVox == 2       \* one-tile pass: voxels of the tile
Uint8Max == 255    \* the largest uint8

-----------------------------------------------------------------------------
(* Python and NumPy helpers *)

NoneInt == 0 - 1
PyNone == [tag |-> "None"]
NoPath == "None"

Min(a, b) == IF a <= b THEN a ELSE b
Max(a, b) == IF a >= b THEN a ELSE b

\* numpy.ceil(a / b) for b > 0 and any integer a (\div rounds down)
CeilDiv(a, b) == 0 - ((0 - a) \div b)

\* numpy.prod over a shape
RECURSIVE Prod(_)
Prod(s) == IF s = <<>> THEN 1 ELSE Head(s) * Prod(Tail(s))

\* len(range(*slice(start, stop, 1).indices(n))): the slice is clamped to the axis
SliceLo(start, n) == Min(start, n)
SliceHi(stop, n) == IF stop = NoneInt THEN n ELSE Min(stop, n)
SliceLen(start, stop, n) == Max(0, SliceHi(stop, n) - SliceLo(start, n))

\* the indices a[rng] addresses in an array of shape shp, rng one slice per axis
Box(rng, shp) ==
    {<<z, y, x>> :
        z \in SliceLo(rng[1].start, shp[1])..(SliceHi(rng[1].stop, shp[1]) - 1),
        y \in SliceLo(rng[2].start, shp[2])..(SliceHi(rng[2].stop, shp[2]) - 1),
        x \in SliceLo(rng[3].start, shp[3])..(SliceHi(rng[3].stop, shp[3]) - 1)}

\* every index of an array of shape shp
AllIdx(shp) == {<<z, y, x>> : z \in 0..(shp[1] - 1), y \in 0..(shp[2] - 1), x \in 0..(shp[3] - 1)}

\* a (vol, path) pair, as init_volume returns it
PyTuple(a, b) == [tag |-> "tuple", fst |-> a, snd |-> b]

\* whether a value supports slice reads and writes (a memory map or an HDF5 dataset)
IsArray(v) == v.tag \in {"memmap", "hdf5"}

-----------------------------------------------------------------------------
(* Volume store: init_volume *)

DTypes == {"uint8", "float32"}

\* utils.get_item_size: bytes per item
ItemSize(dtype) == IF dtype = "uint8" THEN 1 ELSE 4

\* utils.create_hdf5_dset: a chunked dataset in a file of the scratch directory
CreateHdf5Dset(shape, dtype, name) ==
    <<[tag |-> "hdf5", name |-> name, shape |-> shape, dtype |-> dtype],
      "tmp/" \o name \o ".h5">>

\* utils.create_memory_map: a memory-mapped array on a scratch file
CreateMemoryMap(shape, dtype, name) ==
    [tag |-> "memmap", name |-> name, shape |-> shape, dtype |-> dtype]

\* the RAM ceiling of init_volume, in bytes
MaxRam(mrm, avail) == IF mrm = NoneInt THEN avail ELSE mrm * (1024 * 1024)

\* the mutant of BackingOnDisk: a strict comparison
BackingOnDiskStrict(vol_sz, max_ram) == vol_sz > max_ram

\* the decision of init_volume
BackingOnDisk(vol_sz, max_ram) == vol_sz >= max_ram

InitVolume(shape, dtype, name, mrm, avail) ==
    LET max_ram == MaxRam(mrm, avail)
        item_sz == ItemSize(dtype)
        vol_sz  == item_sz * Prod(shape)
    IN  IF BackingOnDisk(vol_sz, max_ram)
        THEN LET r == CreateHdf5Dset(shape, dtype, name)
             IN  PyTuple(r[1], r[2])
        ELSE PyTuple(CreateMemoryMap(shape, dtype, name), NoPath)

-----------------------------------------------------------------------------
(* Geometry planner: slicing.config_frangi_slicing, slicing.config_frangi_batch *)

\* numpy.ceil(ratio * n), ratio = <<num, den>>
Resize(ratio, n) == CeilDiv(ratio[1] * n, ratio[2])

\* numpy.ceil(resize_ratio * shape), per axis
ResizeShape(ratios, shp) == [k \in 1..3 |-> Resize(ratios[k], shp[k])]

\* the number of slices along each axis, and in total
SlicePerDim(out_shape, out_slice_shape) ==
    [k \in 1..3 |-> CeilDiv(out_shape[k], out_slice_shape[k])]

\* the grid position <<iz, iy, ix>> of slice i (itertools.product order)
SlicePos(i, n) == <<i \div (n[2] * n[3]), (i \div n[3]) % n[2], i % n[3]>>

\* the halo-free output range of the slice at grid position pos
OutRange(pos, out_slice_shape, out_shape) ==
    [k \in 1..3 |->
        [start |-> pos[k] * out_slice_shape[k],
         stop  |-> Min((pos[k] + 1) * out_slice_shape[k], out_shape[k])]]

\* the input range of an output range: its preimage under the resize, grown by
\* the halo h and clamped to the image
InRange(rng_out, ratios, shp, h) ==
    [k \in 1..3 |->
        [start |-> Max(0, ((rng_out[k].start * ratios[k][2]) \div ratios[k][1]) - h),
         stop  |-> Min(shp[k], CeilDiv(rng_out[k].stop * ratios[k][2], ratios[k][1]) + h)]]

\* the halo actually present on each side of each axis after clamping
PadMat(rng_out, ratios, shp, h) ==
    [k \in 1..3 |->
        <<((rng_out[k].start * ratios[k][2]) \div ratios[k][1])
              - InRange(rng_out, ratios, shp, h)[k].start,
          InRange(rng_out, ratios, shp, h)[k].stop
              - Min(shp[k], CeilDiv(rng_out[k].stop * ratios[k][2], ratios[k][1]))>>]

ConfigFrangiSlicing(shp, ratios, slice_shape, h, soma, batch) ==
    LET out_shape       == ResizeShape(ratios, shp)
        out_slice_shape == ResizeShape(ratios, slice_shape)
        n               == SlicePerDim(out_shape, out_slice_shape)
        tot             == n[1] * n[2] * n[3]
        out(i)          == OutRange(SlicePos(i, n), out_slice_shape, out_shape)
    IN  [rng_out_lst     |-> [i \in 0..(tot - 1) |-> out(i)],
         rng_in_lst      |-> [i \in 0..(tot - 1) |-> InRange(out(i), ratios, shp, h)],
         rng_in_neu_lst  |-> [i \in 0..(tot - 1) |->
                                 IF soma THEN InRange(out(i), ratios, shp, 0) ELSE <<>>],
         pad_mat_lst     |-> [i \in 0..(tot - 1) |-> PadMat(out(i), ratios, shp, h)],
         out_slice_shape |-> out_slice_shape,
         px_rsz_ratio    |-> ratios,
         tot_slice_num   |-> tot,
         batch_size      |-> Min(batch, tot)]

-----------------------------------------------------------------------------
(* Volume store: init_frangi_volumes *)

VolNames == {"iso_fiber", "frangi", "fiber_msk", "frac_anis", "neuron_msk",
             "fiber_vec", "fiber_cmap"}
VecNames == {"fiber_vec", "fiber_cmap"}

\* the z_max init_frangi_volumes works with
ForcedZMax(slice_shape, zmin, zmax) ==
    IF (zmin # 0 \/ zmax # NoneInt) /\ zmax = NoneInt THEN slice_shape[1] ELSE zmax

\* img_shape after "adapt output z-axis shape if required"
AdaptedShape(shp, slice_shape, zmin, zmax) ==
    IF zmin # 0 \/ zmax # NoneInt
    THEN [shp EXCEPT ![1] = ForcedZMax(slice_shape, zmin, zmax) - zmin]
    ELSE shp

\* dset_shape
DsetShape(shp, slice_shape, ratios, zmin, zmax) ==
    ResizeShape(ratios, AdaptedShape(shp, slice_shape, zmin, zmax))

\* a soma mask that is allocated whatever the flag says
NeuronMskAlways(soma, vol) == vol

\* neuron_msk is allocated when lpf_soma_mask is set and is None otherwise
NeuronMsk(soma, vol) == IF soma THEN vol ELSE PyNone

InitFrangiVolumes(shp, slice_shape, ratios, zmin, zmax, soma, mrm, avail) ==
    LET dset_shape     == DsetShape(shp, slice_shape, ratios, zmin, zmax)
        img_dims       == Len(shp)
        vec_dset_shape == dset_shape \o <<img_dims>>
        vol(dt, name)  == InitVolume(dset_shape, dt, name, mrm, avail)
        vec(dt, name)  == InitVolume(vec_dset_shape, dt, name, mrm, avail)
    IN  [fiber_dset_path |-> vec("float32", "fiber_vec").snd,
         fiber_vec_img   |-> vec("float32", "fiber_vec").fst,
         fiber_vec_clr   |-> vec("uint8", "fiber_cmap").fst,
         frac_anis_img   |-> vol("uint8", "frac_anis").fst,
         frangi_img      |-> vol("uint8", "frangi").fst,
         fiber_msk       |-> vol("uint8", "fiber_msk").fst,
         iso_fiber_img   |-> vol("uint8", "iso_fiber").fst,
         neuron_msk      |-> NeuronMsk(soma, vol("uint8", "neuron_msk").fst),
         z_sel           |-> [start |-> zmin,
                              stop  |-> ForcedZMax(slice_shape, zmin, zmax)]]

-----------------------------------------------------------------------------
(* Tile worker: fiber_analysis *)

Fill == 0                 \* what an allocated volume holds before any write
Token(i) == i + 1         \* what the write-back of tile i stores

\* numpy.max over the voxels img[rng]
SliceMax(im, rng, shp) ==
    CHOOSE m \in {im[c] : c \in Box(rng, shp)} :
        \A c \in Box(rng, shp) : im[c] <= m

\* "skip background slice": the test that lets a slice through
NotBackground(im, rng, shp) == SliceMax(im, rng, shp) # 0

\* the shape of a slice after crop_slice: that of its output range
CropShape(rng_out) == [k \in 1..3 |-> rng_out[k].stop - rng_out[k].start]

\* number of rows of cropped[z_sel, ...]
SrcDepth(rng_out, zs) == SliceLen(zs.start, zs.stop, CropShape(rng_out)[1])

\* number of rows of vol[rng_out] in a volume of shape dset_shape
DstDepth(rng_out, dset_shape) ==
    SliceLen(rng_out[1].start, rng_out[1].stop, dset_shape[1])

\* NumPy's assignment vol[rng_out] = cropped[z_sel, ...] broadcasts or raises
\* ValueError; the two shapes differ along z at most
AssignOk(rng_out, zs, dset_shape) ==
    \/ SrcDepth(rng_out, zs) = DstDepth(rng_out, dset_shape)
    \/ SrcDepth(rng_out, zs) = 1

\* the mutant of WriteIdx: the write-back addresses the halo-inclusive range
WriteIdxHalo(a, dset_shape) ==
    LET g == [k \in 1..3 |-> [start |-> Max(0, a.rng_out[k].start - 1),
                              stop  |-> a.rng_out[k].stop + 1]]
    IN  Box(g, dset_shape)

\* the indices vol[rng_out] addresses in a scalar volume
WriteIdx(a, dset_shape) == Box(a.rng_out, dset_shape)

\* the indices vol[vec_rng_out] addresses in a vector volume
VecIdx(idx) == {c \o <<k>> : c \in idx, k \in 0..2}

\* the volumes one write-back fills
Written(soma) ==
    IF soma THEN VolNames ELSE VolNames \ {"neuron_msk"}

-----------------------------------------------------------------------------
(* Tile scheduler: parallel_frangi_on_slices *)

NoPlan == [tot_slice_num |-> 0]
NoArgs == [rng_out |-> <<>>]

\* range(tot_slice_num), and the tiles of the running pass
PlannedTiles == 0..(plan.tot_slice_num - 1)
Tiles == DOMAIN tile

\* the mutant of SubmitArgs: the output range of the next tile
SubmitArgsShifted(i, p) ==
    [rng_in     |-> p.rng_in_lst[i],
     rng_in_neu |-> p.rng_in_neu_lst[i],
     rng_out    |-> p.rng_out_lst[(i + 1) % p.tot_slice_num],
     pad_mat    |-> p.pad_mat_lst[i]]

\* the per-tile arguments of delayed(fiber_analysis)(...)
SubmitArgs(i, p) ==
    [rng_in     |-> p.rng_in_lst[i],
     rng_in_neu |-> p.rng_in_neu_lst[i],
     rng_out    |-> p.rng_out_lst[i],
     pad_mat    |-> p.pad_mat_lst[i]]

Running == {i \in Tiles : tile[i] \in {"started", "filtered"}}
Returned == {i \in Tiles : tile[i] \in {"done", "skipped"}}

\* the mutant of PoolHasRoom: the pool takes one call more than it has workers
PoolHasRoomLoose == Cardinality(Running) <= plan.batch_size

\* Parallel(n_jobs=batch_size): a worker of the pool is free
PoolHasRoom == Cardinality(Running) < plan.batch_size

\* a mutant of JoinReady: the pool is left as soon as no tile is running
JoinReadyIdle == Running = {} /\ \E i \in Tiles : tile[i] # "pending"

\* a mutant of JoinReady: a call that raised counts as returned
JoinReadyEnded == \A i \in Tiles : tile[i] \notin {"pending", "started", "filtered"}

\* leaving the "with Parallel" block normally: every call has returned
JoinReady == Returned = Tiles

\* the shape of the allocated scalar volumes
dset_shape == DsetShape(img_shape, plan.out_slice_shape, plan.px_rsz_ratio, z_min, z_max)

\* config_frangi_batch and config_frangi_slicing
Plan ==
    /\ pc = "start"
    /\ plan' = ConfigFrangiSlicing(img_shape, px_rsz_ratio, in_slice_shape, halo,
                                   lpf_soma_mask, jobs)
    /\ pc' = "init"
    /\ UNCHANGED <<vs_vars, fn_vars, odf_vars, in_vars, vols, data, fiber_dset_path, z_sel, tile, runs,
                   targs, wrote, raised, save_dir>>

\* init_frangi_volumes; an allocation with an empty or negative axis raises
InitVolumes ==
    /\ pc = "init"
    /\ LET r == InitFrangiVolumes(img_shape, plan.out_slice_shape, plan.px_rsz_ratio,
                                  z_min, z_max, lpf_soma_mask, max_ram_mb, avail_ram)
       IN  IF \E k \in 1..3 : dset_shape[k] <= 0
           THEN /\ pc' = "failed"
                /\ UNCHANGED <<vols, data, fiber_dset_path, z_sel, tile, runs, targs,
                               wrote>>
           ELSE /\ pc' = "parallel"
                /\ vols' = [n \in VolNames |->
                              CASE n = "iso_fiber"  -> r.iso_fiber_img
                                [] n = "frangi"     -> r.frangi_img
                                [] n = "fiber_msk"  -> r.fiber_msk
                                [] n = "frac_anis"  -> r.frac_anis_img
                                [] n = "neuron_msk" -> r.neuron_msk
                                [] n = "fiber_vec"  -> r.fiber_vec_img
                                [] n = "fiber_cmap" -> r.fiber_vec_clr]
                /\ data' = [n \in VolNames |->
                              IF n = "neuron_msk" /\ ~lpf_soma_mask THEN <<>>
                              ELSE IF n \in VecNames
                                   THEN [c \in VecIdx(AllIdx(dset_shape)) |-> Fill]
                                   ELSE [c \in AllIdx(dset_shape) |-> Fill]]
                /\ fiber_dset_path' = r.fiber_dset_path
                /\ z_sel' = r.z_sel
                /\ tile' = [i \in PlannedTiles |-> "pending"]
                /\ runs' = [i \in PlannedTiles |-> 0]
                /\ targs' = [i \in PlannedTiles |-> NoArgs]
                /\ wrote' = [i \in PlannedTiles |-> {}]
    /\ UNCHANGED <<vs_vars, fn_vars, odf_vars, in_vars, plan, raised, save_dir>>

\* the pool takes tile i: at most batch_size calls run at a time
Start(i) ==
    /\ pc = "parallel"
    /\ tile[i] = "pending"
    /\ PoolHasRoom
    /\ tile' = [tile EXCEPT ![i] = "started"]
    /\ runs' = [runs EXCEPT ![i] = @ + 1]
    /\ targs' = [targs EXCEPT ![i] = SubmitArgs(i, plan)]
    /\ UNCHANGED <<vs_vars, fn_vars, odf_vars, in_vars, pc, plan, vols, data, fiber_dset_path, z_sel,
                   wrote, raised, save_dir>>

\* fiber_analysis up to the write-back: the slice is read and, unless it is
\* background, corrected, filtered, cropped and masked
Filter(i) ==
    /\ tile[i] = "started"
    /\ tile' = [tile EXCEPT ![i] =
                  IF NotBackground(img, targs[i].rng_in, img_shape)
                  THEN "filtered" ELSE "skipped"]
    /\ UNCHANGED <<vs_vars, fn_vars, odf_vars, in_vars, pc, plan, vols, data, fiber_dset_path, z_sel,
                   runs, targs, wrote, raised, save_dir>>

\* the filtering of a slice raises (out of memory, a numerical error)
FilterRaise(i) ==
    /\ tile[i] = "started"
    /\ Cardinality({j \in Tiles : tile[j] = "raised"}) < MaxFaults
    /\ NotBackground(img, targs[i].rng_in, img_shape)
    /\ tile' = [tile EXCEPT ![i] = "raised"]
    /\ raised' = raised \cup {i}
    /\ UNCHANGED <<vs_vars, fn_vars, odf_vars, in_vars, pc, plan, vols, data, fiber_dset_path, z_sel,
                   runs, targs, wrote, save_dir>>

\* "fill memory-mapped output arrays": the first assignment raises when the
\* shapes do not agree, otherwise every volume is written
WriteBack(i) ==
    /\ tile[i] = "filtered"
    /\ IF AssignOk(targs[i].rng_out, z_sel, dset_shape)
       THEN LET idx == WriteIdx(targs[i], dset_shape)
            IN  /\ data' = [n \in VolNames |->
                              IF n \notin Written(lpf_soma_mask) THEN data[n]
                              ELSE IF n \in VecNames
                                   THEN [c \in DOMAIN data[n] |->
                                           IF c \in VecIdx(idx) THEN Token(i)
                                           ELSE data[n][c]]
                                   ELSE [c \in DOMAIN data[n] |->
                                           IF c \in idx THEN Token(i) ELSE data[n][c]]]
                /\ wrote' = [wrote EXCEPT ![i] = idx]
                /\ tile' = [tile EXCEPT ![i] = "done"]
                /\ UNCHANGED raised
       ELSE /\ tile' = [tile EXCEPT ![i] = "write_error"]
            /\ raised' = raised \cup {i}
            /\ UNCHANGED <<data, wrote>>
    /\ UNCHANGED <<vs_vars, fn_vars, odf_vars, in_vars, pc, plan, vols, fiber_dset_path, z_sel, runs,
                   targs, save_dir>>

\* the end of the "with Parallel" block
Join ==
    /\ pc = "parallel"
    /\ JoinReady
    /\ pc' = "save"
    /\ UNCHANGED <<vs_vars, fn_vars, odf_vars, in_vars, plan, vols, data, fiber_dset_path, z_sel, tile,
                   runs, targs, wrote, raised, save_dir>>

\* the exception of a tile leaves parallel_frangi_on_slices
Propagate ==
    /\ pc = "parallel"
    /\ raised # {}
    /\ pc' = "failed"
    /\ UNCHANGED <<vs_vars, fn_vars, odf_vars, in_vars, plan, vols, data, fiber_dset_path, z_sel, tile,
                   runs, targs, wrote, raised, save_dir>>

-----------------------------------------------------------------------------
(* Artifact writer: save_frangi_arrays and output.save_array *)

\* output.save_array: the file written for an array in a format
SaveArray(fname, vol, format) ==
    [file |-> fname \o "." \o format, how |-> "save_array", backing |-> vol.tag]

\* shutil.move of the HDF5 file of the orientation vectors
MoveDset(path, fname) ==
    [file |-> fname \o ".h5", how |-> "move", backing |-> "hdf5", from |-> path]

\* the name of the input image, without its extension
ImgName == "img"

\* a mutant of SaveFrangiArrays: the orientation vectors always go through
\* save_array
SaveFrangiArraysNoMove(path, v) ==
    {SaveArray("fiber_vec_" \o ImgName, v["fiber_vec"], "npy"),
     SaveArray("fiber_cmap_" \o ImgName, v["fiber_cmap"], "tif"),
     SaveArray("frac_anis_" \o ImgName, v["frac_anis"], "tif"),
     SaveArray("frangi_" \o ImgName, v["frangi"], "tif"),
     SaveArray("fiber_msk_" \o ImgName, v["fiber_msk"], "tif")}
    \cup (IF v["neuron_msk"] # PyNone
          THEN {SaveArray("neuron_msk_" \o ImgName, v["neuron_msk"], "tif")}
          ELSE {})

\* a mutant of SaveFrangiArrays: every disk-resident volume is moved
SaveFrangiArraysMoveAll(path, v) ==
    {IF v[n].tag = "hdf5"
     THEN MoveDset("tmp/" \o n \o ".h5", n \o "_" \o ImgName)
     ELSE SaveArray(n \o "_" \o ImgName, v[n], IF n = "fiber_vec" THEN "npy" ELSE "tif") :
        n \in {m \in VolNames \ {"iso_fiber"} : v[m] # PyNone}}

SaveFrangiArrays(path, v) ==
    (IF path # NoPath
     THEN {MoveDset(path, "fiber_vec_" \o ImgName)}
     ELSE {SaveArray("fiber_vec_" \o ImgName, v["fiber_vec"], "npy")})
    \cup {SaveArray("fiber_cmap_" \o ImgName, v["fiber_cmap"], "tif"),
          SaveArray("frac_anis_" \o ImgName, v["frac_anis"], "tif"),
          SaveArray("frangi_" \o ImgName, v["frangi"], "tif"),
          SaveArray("fiber_msk_" \o ImgName, v["fiber_msk"], "tif")}
    \cup (IF v["neuron_msk"] # PyNone
          THEN {SaveArray("neuron_msk_" \o ImgName, v["neuron_msk"], "tif")}
          ELSE {})

\* save_frangi_arrays, then the return of parallel_frangi_on_slices
Save ==
    /\ pc = "save"
    /\ save_dir' = SaveFrangiArrays(fiber_dset_path, vols)
    /\ pc' = "done"
    /\ UNCHANGED <<vs_vars, fn_vars, odf_vars, in_vars, plan, vols, data, fiber_dset_path, z_sel, tile,
                   runs, targs, wrote, raised>>

-----------------------------------------------------------------------------
(* Inputs *)

PixVals == {0 - 1, 0, 1}
RszRatios == {<<1, 1>>, <<1, 2>>}
BigRam == 1024 * 1024 * 1024

\* <<max_ram_mb, available RAM>>: no cap with little or much RAM, a cap of 0 or 1 MB
RamBudgets == {<<NoneInt, SmallRam>>, <<NoneInt, BigRam>>, <<0, BigRam>>, <<1, BigRam>>}

\* images: uniform ones, and ones whose only non-zero voxels are one z-row
ImgSet(shp) ==
    {[c \in AllIdx(shp) |-> v] : v \in PixVals}
    \cup {[c \in AllIdx(shp) |-> IF c[1] = z THEN v ELSE 0] :
            z \in 0..(shp[1] - 1), v \in PixVals \ {0}}

Geometries ==
    {g \in [shape : {<<z, y, 1>> : z \in 1..MaxZ, y \in 1..MaxY},
            slice : {<<z, y, 1>> : z \in 1..MaxZ, y \in 1..MaxY}] :
        /\ \A k \in 1..3 : g.slice[k] <= g.shape[k]
        /\ Prod(SlicePerDim(g.shape, g.slice)) <= MaxTiles}

\* the inputs of a pass: every geometry, with
\*   - the forced z-range (inside the image) and the resize ratio varied,
\*   - or the image and the worker count varied,
\*   - or the halo varied,
\*   - or the soma masking and the RAM budget varied;
\* the pool has one worker where the worker count is not what is varied
PassInputs ==
    {p \in {[g |-> g, ratio |-> <<rz, ry, ry>>, halo |-> MaxHalo, z_min |-> zmin,
              z_max |-> zmax, soma |-> FALSE, mrm |-> NoneInt, avail |-> BigRam,
              jobs |-> 1, img |-> [c \in AllIdx(g.shape) |-> 1]] :
                g \in Geometries, rz \in RszRatios, ry \in RszRatios,
                zmin \in 0..MaxZMin, zmax \in {NoneInt} \cup 1..MaxZ} :
        /\ p.z_min < p.g.shape[1]
        /\ p.z_max # NoneInt => (p.z_min < p.z_max /\ p.z_max <= p.g.shape[1])}
    \cup
    UNION {{[g |-> g, ratio |-> <<<<1, 1>>, <<1, 1>>, <<1, 1>>>>, halo |-> MaxHalo,
             z_min |-> 0, z_max |-> NoneInt, soma |-> FALSE, mrm |-> NoneInt,
             avail |-> BigRam, jobs |-> j, img |-> im] :
               j \in 1..MaxJobs, im \in ImgSet(g.shape)} :
           g \in Geometries}
    \cup
    {[g |-> g, ratio |-> <<<<1, 1>>, <<1, 1>>, <<1, 1>>>>, halo |-> h,
      z_min |-> 0, z_max |-> NoneInt, soma |-> FALSE, mrm |-> NoneInt,
      avail |-> BigRam, jobs |-> MaxJobs, img |-> [c \in AllIdx(g.shape) |-> 1]] :
        g \in Geometries, h \in 0..MaxHalo}
    \cup
    {[g |-> g, ratio |-> <<<<1, 1>>, <<1, 1>>, <<1, 1>>>>, halo |-> MaxHalo,
      z_min |-> 0, z_max |-> NoneInt, soma |-> sm, mrm |-> ram[1], avail |-> ram[2],
      jobs |-> 1, img |-> [c \in AllIdx(g.shape) |-> 1]] :
        g \in Geometries, sm \in BOOLEAN, ram \in RamBudgets}

NotCalled == [tag |-> "NotCalled"]

\* the volume store is not called on its own during a pass
VsIdle == vs_call = NotCalled /\ vs_ret = NotCalled

\* no pure function is called on its own
FnIdle == fn_call = NotCalled /\ fn_ret = NotCalled

\* no ODF pass is running
OdfIdle ==
    /\ odf_in = NotCalled
    /\ odf_pc = "idle"
    /\ odf_norm = NotCalled
    /\ odf_w = <<>>
    /\ odf_saved = {}

\* the state of a filtering pass with inputs p, at position at
PassAt(p, at) ==
    /\ img = p.img
    /\ img_shape = p.g.shape
    /\ in_slice_shape = p.g.slice
    /\ px_rsz_ratio = p.ratio
    /\ halo = p.halo
    /\ z_min = p.z_min
    /\ z_max = p.z_max
    /\ lpf_soma_mask = p.soma
    /\ max_ram_mb = p.mrm
    /\ avail_ram = p.avail
    /\ jobs = p.jobs
    /\ pc = at
    /\ plan = NoPlan
    /\ vols = <<>>
    /\ data = <<>>
    /\ fiber_dset_path = NoPath
    /\ z_sel = [start |-> 0, stop |-> NoneInt]
    /\ tile = <<>>
    /\ runs = <<>>
    /\ targs = <<>>
    /\ wrote = <<>>
    /\ raised = {}
    /\ save_dir = {}

\* no filtering pass is running
PassIdle ==
    PassAt([g |-> [shape |-> <<1, 1, 1>>, slice |-> <<1, 1, 1>>],
            ratio |-> <<<<1, 1>>, <<1, 1>>, <<1, 1>>>>, halo |-> 0, z_min |-> 0,
            z_max |-> NoneInt, soma |-> FALSE, mrm |-> NoneInt, avail |-> BigRam,
            jobs |-> 1, img |-> [c \in AllIdx(<<1, 1, 1>>) |-> 0]], "idle")

Init ==
    /\ VsIdle
    /\ FnIdle
    /\ OdfIdle
    /\ \E p \in PassInputs : PassAt(p, "start")

Next ==
    \/ Plan
    \/ InitVolumes
    \/ \E i \in Tiles : Start(i)
    \/ \E i \in Tiles : Filter(i)
    \/ \E i \in Tiles : FilterRaise(i)
    \/ \E i \in Tiles : WriteBack(i)
    \/ Join
    \/ Propagate
    \/ Save

Spec == Init /\ [][Next]_vars

-----------------------------------------------------------------------------
(* The volume store called on its own: init_volume as a function of its inputs *)

VsCalls ==
    [shape : {<<d, y, x>> : d \in 1..MaxSlabs, y \in {512, 1024}, x \in {512, 1024}},
     dtype : DTypes,
     mrm   : {NoneInt, 0, 1, 2, 4},
     avail : {1024 * 1024, 3 * 1024 * 1024}]

InitVs ==
    /\ vs_call \in VsCalls
    /\ vs_ret = NotCalled
    /\ FnIdle
    /\ PassIdle
    /\ OdfIdle

CallInitVolume ==
    /\ vs_call # NotCalled
    /\ vs_ret = NotCalled
    /\ vs_ret' = InitVolume(vs_call.shape, vs_call.dtype, "tmp", vs_call.mrm,
                            vs_call.avail)
    /\ UNCHANGED <<vs_call, fn_vars, in_vars, pass_vars, odf_vars>>

NextVs == CallInitVolume

SpecVolume == InitVs /\ [][NextVs]_vars

-----------------------------------------------------------------------------------------------------------------------------------------------------
(* ODF aggregator: init_odf_volumes, odf_analysis, save_odf_arrays,        *)
(* parallel_odf_on_scales                                                  *)

\* odf.get_sph_harm_ncoeff: coefficients of an even-degree expansion
GetSphHarmNcoeff(deg) == ((deg + 1) * (deg + 2)) \div 2

\* numpy.flip of a shape
Flip(s) == [k \in 1..Len(s) |-> s[Len(s) + 1 - k]]

\* the mutant of OdfScale: rounding down, plus one
OdfScaleFloorPlusOne(odf_scale_um, px_iso) == (odf_scale_um \div px_iso) + 1

\* "derive the ODF kernel size in [px]": int(ceil(odf_scale_um / px_size_iso[0]))
OdfScale(odf_scale_um, px_iso) == CeilDiv(odf_scale_um, px_iso)

\* the mutant of InitOdfVolumes: each (vol, path) pair is unpacked
InitOdfVolumesUnpacked(vec_img_shape, odf_scale, odf_degrees, mrm, avail) ==
    LET odi_shape == [k \in 1..3 |-> CeilDiv(vec_img_shape[k], odf_scale)]
        bg_shape  == Flip(odi_shape)
        num_coeff == GetSphHarmNcoeff(odf_degrees)
        sfx       == ToString(odf_scale)
    IN  [odf       |-> InitVolume(odi_shape \o <<num_coeff>>, "float32",
                                  "odf_tmp" \o sfx, mrm, avail).fst,
         bg_mrtrix |-> InitVolume(bg_shape, "uint8", "bg_tmp" \o sfx, mrm, avail).fst,
         odi_pri   |-> InitVolume(odi_shape, "uint8", "odi_pri_tmp" \o sfx, mrm, avail).fst,
         odi_sec   |-> InitVolume(odi_shape, "uint8", "odi_sec_tmp" \o sfx, mrm, avail).fst,
         odi_tot   |-> InitVolume(odi_shape, "uint8", "odi_tot_tmp" \o sfx, mrm, avail).fst,
         odi_anis  |-> InitVolume(odi_shape, "uint8", "odi_anis_tmp" \o sfx, mrm,
                                  avail).fst,
         vec_tensor_eigen |-> InitVolume(odi_shape \o <<3>>, "float32",
                                         "tensor_tmp" \o sfx, mrm, avail).fst]

\* each entry is what init_volume returned for it
\* the mutant of OdiShape: rounding down
OdiShapeFloor(vec_img_shape, odf_scale) == [k \in 1..3 |-> vec_img_shape[k] \div odf_scale]

\* odi_shape = ceil(vec_img_shape / odf_scale)
OdiShape(vec_img_shape, odf_scale) == [k \in 1..3 |-> CeilDiv(vec_img_shape[k], odf_scale)]

InitOdfVolumes(vec_img_shape, odf_scale, odf_degrees, mrm, avail) ==
    LET odi_shape == OdiShape(vec_img_shape, odf_scale)
        bg_shape  == Flip(odi_shape)
        num_coeff == GetSphHarmNcoeff(odf_degrees)
        sfx       == ToString(odf_scale)
    IN  [odf       |-> InitVolume(odi_shape \o <<num_coeff>>, "float32",
                                  "odf_tmp" \o sfx, mrm, avail),
         bg_mrtrix |-> InitVolume(bg_shape, "uint8", "bg_tmp" \o sfx, mrm, avail),
         odi_pri   |-> InitVolume(odi_shape, "uint8", "odi_pri_tmp" \o sfx, mrm, avail),
         odi_sec   |-> InitVolume(odi_shape, "uint8", "odi_sec_tmp" \o sfx, mrm, avail),
         odi_tot   |-> InitVolume(odi_shape, "uint8", "odi_tot_tmp" \o sfx, mrm, avail),
         odi_anis  |-> InitVolume(odi_shape, "uint8", "odi_anis_tmp" \o sfx, mrm, avail),
         vec_tensor_eigen |-> InitVolume(odi_shape \o <<3>>, "float32",
                                         "tensor_tmp" \o sfx, mrm, avail)]

OdfNames == {"odf", "bg_mrtrix", "odi_pri", "odi_sec", "odi_tot", "odi_anis",
             "vec_tensor_eigen"}

\* the scratch name an entry of init_odf_volumes was created under
ScratchName(v) == IF v.tag = "tuple" THEN v.fst.name ELSE v.name

\* output.save_array accepts fname, save_dir, nd_array, px_size and format only
SaveArrayParams == {"fname", "save_dir", "nd_array", "px_size", "format"}

\* the file save_odf_arrays writes for prefix pfx of the scale odf_scale_um
OdfFile(pfx, odf_scale_um) ==
    [file |-> pfx \o "_sv" \o ToString(odf_scale_um) \o ".nii", how |-> "save_array",
     scale_um |-> odf_scale_um]

Scales == DOMAIN odf_w

\* the positions of an odf_analysis call that is under way
OdfSteps == {"inited", "background", "estimated", "saved_bg", "saved_odf"}

OdfRunning == {k \in Scales : odf_w[k].pc \in OdfSteps}
OdfRaised == {k \in Scales : odf_w[k].pc = "raised"}
OdfReturned == {k \in Scales : odf_w[k].pc = "done"}

\* n_jobs = min(num_cpu, len(odf_scales_um))
OdfJobs == Min(odf_in.num_cpu, Len(odf_in.odf_scales_um))

OdfInputs ==
    [vec_img_shape : {<<z, y, 1>> : z \in 1..MaxZ, y \in 1..MaxY},
     odf_scales_um : {<<a>> : a \in 1..MaxScaleUm}
                     \cup {<<a, b>> : a \in 1..MaxScaleUm, b \in 1..MaxScaleUm},
     px_size_iso   : 1..MaxPxIso,
     odf_degrees   : {2, 6},
     num_cpu       : 1..MaxCpu,
     mrm           : {NoneInt, 0},
     avail         : {BigRam}]

\* odf.get_sph_harm_norm_factors: the factors of the given degrees; obj tells
\* the objects of different calls apart (the nth call of the pass made it)
GetSphHarmNormFactors(odf_degrees, nth) ==
    [tag |-> "norm_factors", degrees |-> odf_degrees, obj |-> nth]

\* a worker that builds factors of its own instead of taking the shared ones
OdfNormArgRecomputed(norm_factors, odf_degrees) ==
    GetSphHarmNormFactors(odf_degrees, norm_factors.obj + 1)

\* the odf_norm argument of each delayed odf_analysis call
OdfNormArg(norm_factors, odf_degrees) == norm_factors

InitOdf ==
    /\ VsIdle
    /\ FnIdle
    /\ PassIdle
    /\ odf_in \in OdfInputs
    /\ odf_pc = "start"
    /\ odf_norm = NotCalled
    /\ odf_w = <<>>
    /\ odf_saved = {}

\* parallel_odf_on_scales up to the pool: the normalization factors, the pool size
OdfPrepare ==
    /\ odf_pc = "start"
    /\ odf_norm' = GetSphHarmNormFactors(odf_in.odf_degrees, 1)
    /\ odf_w' = [k \in 1..Len(odf_in.odf_scales_um) |->
                   [pc |-> "pending", odf_scale_um |-> odf_in.odf_scales_um[k],
                    runs |-> 0, odf_scale |-> 0, odf_norm |-> NotCalled,
                    vols |-> <<>>]]
    /\ odf_pc' = "parallel"
    /\ UNCHANGED <<vs_vars, fn_vars, in_vars, pass_vars, odf_in, odf_saved>>

\* the pool takes the k-th scale; odf_analysis up to its first use of the
\* volumes: the kernel size and init_odf_volumes
OdfStart(k) ==
    /\ odf_pc = "parallel"
    /\ odf_w[k].pc = "pending"
    /\ Cardinality(OdfRunning) < OdfJobs
    /\ LET odf_scale == OdfScale(odf_w[k].odf_scale_um, odf_in.px_size_iso)
       IN  odf_w' = [odf_w EXCEPT ![k] =
                       [pc           |-> "inited",
                        odf_scale_um |-> odf_w[k].odf_scale_um,
                        runs         |-> odf_w[k].runs + 1,
                        odf_scale    |-> odf_scale,
                        odf_norm     |-> OdfNormArg(odf_norm, odf_in.odf_degrees),
                        vols         |-> InitOdfVolumes(odf_in.vec_img_shape, odf_scale,
                                                        odf_in.odf_degrees, odf_in.mrm,
                                                        odf_in.avail)]]
    /\ UNCHANGED <<vs_vars, fn_vars, in_vars, pass_vars, odf_in, odf_pc, odf_norm,
                   odf_saved>>

\* the next statement of the k-th odf_analysis call:
\*   generate_odf_background, which fills bg_mrtrix;
\*   estimate_odf_coeff, which fills the ODF, tensor and ODI volumes;
\*   save_odf_arrays: the background, the ODF coefficients, then the first
\*   ODI map, whose save_array call is given a keyword it does not accept.
\* Filling a value that is not an array raises.
OdfStep(k) ==
    /\ odf_w[k].pc \in OdfSteps
    /\ LET w == odf_w[k]
           to == CASE w.pc = "inited" ->
                        IF IsArray(w.vols.bg_mrtrix) THEN "background" ELSE "raised"
                   [] w.pc = "background" ->
                        IF \A n \in OdfNames \ {"bg_mrtrix"} : IsArray(w.vols[n])
                        THEN "estimated" ELSE "raised"
                   [] w.pc = "estimated" -> "saved_bg"
                   [] w.pc = "saved_bg" -> "saved_odf"
                   [] w.pc = "saved_odf" ->
                        IF "odi" \in SaveArrayParams THEN "done" ELSE "raised"
       IN  /\ odf_w' = [odf_w EXCEPT ![k].pc = to]
           /\ odf_saved' =
                 odf_saved \cup
                 (CASE to = "saved_bg"  -> {OdfFile("bg_mrtrixview", w.odf_scale_um)}
                    [] to = "saved_odf" -> {OdfFile("odf_mrtrixview", w.odf_scale_um)}
                    [] OTHER -> {})
    /\ UNCHANGED <<vs_vars, fn_vars, in_vars, pass_vars, odf_in, odf_pc, odf_norm>>

\* the end of the "with Parallel" block: the exception of a call leaves
\* parallel_odf_on_scales, otherwise it returns once every call has returned
OdfLeave ==
    /\ odf_pc = "parallel"
    /\ OdfRaised # {} \/ OdfReturned = Scales
    /\ odf_pc' = IF OdfRaised # {} THEN "failed" ELSE "done"
    /\ UNCHANGED <<vs_vars, fn_vars, in_vars, pass_vars, odf_in, odf_norm, odf_w,
                   odf_saved>>

NextOdf ==
    \/ OdfPrepare
    \/ \E k \in Scales : OdfStart(k)
    \/ \E k \in Scales : OdfStep(k)
    \/ OdfLeave

SpecOdf == InitOdf /\ [][NextOdf]_vars

-----------------------------------------------------------------------------
(* Pure functions called on their own: compute_fractional_anisotropy,      *)
(* mask_background, input.load_microscopy_image                            *)

\* ---- compute_fractional_anisotropy ----

\* the eigenvalue triplets of one voxel
EigenVals == {<<a, b, c>> : a \in (0 - MaxEig)..MaxEig, b \in (0 - MaxEig)..MaxEig,
                            c \in (0 - MaxEig)..MaxEig}

\* utils.divide_nonzero: the quotient num / den as <<num, den>>, a zero
\* denominator being replaced so that 0 / 0 gives 0
DivideNonzero(num, den) == IF den = 0 THEN <<0, 1>> ELSE <<num, den>>

\* the non-negative real whose square is the quotient q[1] / (2 * q[2]):
\* np.sqrt(0.5 * q)
SqrtHalf(q) == [tag |-> "sqrt", num |-> q[1], den |-> 2 * q[2]]

ComputeFractionalAnisotropy(e) ==
    SqrtHalf(DivideNonzero(
        (e[1] - e[2]) * (e[1] - e[2]) + (e[1] - e[3]) * (e[1] - e[3])
            + (e[2] - e[3]) * (e[2] - e[3]),
        e[1] * e[1] + e[2] * e[2] + e[3] * e[3]))

\* ---- mask_background ----

\* the voxels of a slice
Voxels == 1..MaskVox

\* utils.create_background_mask: the voxels below the threshold the chosen
\* method computed
CreateBackgroundMask(im, thresh) == {c \in DOMAIN im : im[c] < thresh}

\* the mutant of MaskSel: the inversion flag is ignored
MaskSelNoInvert(background, all, invert) == background

\* "invert mask": np.logical_not(background) when invert
MaskSel(background, all, invert) == IF invert THEN all \ background ELSE background

\* arr[background] = 0 (arr[background, :] = 0 for the vector arrays)
ZeroAt(arr, background) == [c \in DOMAIN arr |-> IF c \in background THEN 0 ELSE arr[c]]

MaskBackground(im, thresh, fiber_vec_slice, orientcol_slice, frac_anis_slice, invert) ==
    LET background == MaskSel(CreateBackgroundMask(im, thresh), DOMAIN im, invert)
    IN  IF frac_anis_slice # PyNone
        THEN [fiber_vec_slice |-> ZeroAt(fiber_vec_slice, background),
              orientcol_slice |-> ZeroAt(orientcol_slice, background),
              frac_anis_slice |-> ZeroAt(frac_anis_slice, background),
              background      |-> background]
        ELSE [fiber_vec_slice |-> ZeroAt(fiber_vec_slice, background),
              orientcol_slice |-> ZeroAt(orientcol_slice, background),
              background      |-> background]

\* ---- input.get_image_file, input.load_microscopy_image ----

\* the extension of the input path ("" when the name has none)
Extensions == {"npy", "NPY", "tif", "tiff", "yml", "png", ""}

\* what the input file holds: a grey or multi-channel microscopy image, or
\* an array of orientation vectors
Contents ==
    {[holds |-> "image", ndim |-> 3], [holds |-> "image", ndim |-> 4],
     [holds |-> "vectors", ndim |-> 4]}

Lower(fmt) == IF fmt = "NPY" THEN "npy" ELSE fmt

ValueError(msg) == [tag |-> "ValueError", msg |-> msg]

\* the mutant of GreyNeuronMask: the flag is kept for a grey image too
GreyNeuronMaskKept(ndim, neuron_mask) == neuron_mask

\* "if len(img.shape) == 3: cli_args.neuron_mask = False"
GreyNeuronMask(ndim, neuron_mask) == IF ndim = 3 THEN FALSE ELSE neuron_mask

LoadMicroscopyImage(fmt, content, neuron_mask) ==
    IF fmt = ""
    THEN ValueError("Format must be specified for input volume images!")
    ELSE LET mosaic == fmt = "yml"
         IN  IF fmt = "npy" \/ fmt = "h5"
             THEN IF content.ndim # 4
                  THEN ValueError("Invalid fiber orientation dataset (ndim != 4)")
                  ELSE [tag |-> "loaded", img |-> content, mosaic |-> mosaic,
                        skip_frangi |-> TRUE, neuron_mask |-> neuron_mask]
             ELSE IF ~mosaic /\ Lower(fmt) \notin {"npy", "tif", "tiff"}
                  THEN ValueError("Unsupported image format!")
                  ELSE [tag |-> "loaded", img |-> content, mosaic |-> mosaic,
                        skip_frangi |-> FALSE,
                        neuron_mask |-> GreyNeuronMask(content.ndim, neuron_mask)]

\* ---- save_odf_arrays ----

\* the six save_array calls of save_odf_arrays, in order: file name, format
\* and the names of the arguments given
SaveOdfCalls(odf_scale_um) ==
    LET sv == "_sv" \o ToString(odf_scale_um)
        nii(pfx) == [fname |-> pfx \o sv, format |-> "nii",
                     args |-> {"fname", "save_dir", "nd_array", "format"}]
        odi(pfx) == [fname |-> pfx \o sv, format |-> "tif",
                     args |-> {"fname", "save_dir", "nd_array", "px_size", "odi"}]
    IN  <<nii("bg_mrtrixview"), nii("odf_mrtrixview"), odi("odi_pri"), odi("odi_sec"),
          odi("odi_tot"), odi("odi_anis")>>

\* Python raises TypeError for a call with an argument the function lacks
Accepted(call) == call.args \subseteq SaveArrayParams

SaveOdfArrays(odf_scale_um) ==
    LET calls == SaveOdfCalls(odf_scale_um)
        bad   == {i \in DOMAIN calls : ~Accepted(calls[i])}
        last  == IF bad = {} THEN Len(calls)
                 ELSE CHOOSE i \in bad : \A j \in bad : i <= j
    IN  [tag   |-> IF bad = {} THEN "returned" ELSE "TypeError",
         calls |-> SubSeq(calls, 1, last),
         files |-> {[file |-> calls[i].fname \o "." \o calls[i].format,
                     how |-> "save_array", scale_um |-> odf_scale_um] :
                       i \in {j \in 1..last : Accepted(calls[j])}}]

\* ---- the Frangi pass over an image of one tile, voxel by voxel ----

\* the voxels of the tile
TileVoxels == 1..TileVox

\* the eigenvalue triplets tried: fractional anisotropy depends neither on
\* the order of the eigenvalues nor on their common scale
TileEigenVals == {e \in EigenVals : e[1] >= e[2] /\ e[2] >= e[3] /\ e[1] \in {0, MaxEig}}

\* what a cast of a number outside the range of uint8 gives depends on the
\* build of NumPy: the low byte, or the nearest end of the range
Builds == {"wrap", "saturate"}

\* ndarray.astype(np.uint8) of a number without fractional part
AsUint8(v, build) ==
    IF 0 <= v /\ v <= Uint8Max THEN v
    ELSE IF build = "wrap" THEN v % (Uint8Max + 1)
    ELSE IF v < 0 THEN 0 ELSE Uint8Max

\* the reals of the tile are kept as the integer part of 255 times their
\* value, which is all the casts to uint8 keep of them; fa is the square root
\* of fa.num / fa.den
Times255(fa) ==
    CHOOSE k \in 0..(2 * Uint8Max) :
        /\ k * k * fa.den <= Uint8Max * Uint8Max * fa.num
        /\ Uint8Max * Uint8Max * fa.num < (k + 1) * (k + 1) * fa.den

\* 255 times a vesselness score, the score being level / MaxGrey in [0, 1]
Score255(level) == (Uint8Max * level) \div MaxGrey

Bool(b) == IF b THEN 1 ELSE 0

\* the mutant of FiberMskValue: the mask is written without the inversion
FiberMskValueDirect(fiber_mask_slice, c) == Uint8Max * Bool(c \in fiber_mask_slice)

\* 255 * (1 - fiber_mask_slice), fiber_mask_slice being the background mask
FiberMskValue(fiber_mask_slice, c) == Uint8Max * (1 - Bool(c \in fiber_mask_slice))

\* fiber_analysis on the tile a: the slices the filter stages give are
\* arguments, the masking and the write-back are computed
FiberAnalysis(a, build) ==
    IF a.fiber_slice_max = 0
    THEN [tag |-> "skipped", reads |-> {"fiber"}]
    ELSE LET fiber_vec_slice == [c \in TileVoxels |-> c]
             orientcol_slice == [c \in TileVoxels |-> 100 + c]
             frac_anis_slice == [c \in TileVoxels |->
                                   Times255(ComputeFractionalAnisotropy(a.eigenval))]
             bg   == MaskBackground(a.frangi_slice, a.li, fiber_vec_slice,
                                    orientcol_slice, PyNone, FALSE)
             soma == MaskBackground(a.iso_neuron_slice, a.yen, bg.fiber_vec_slice,
                                    bg.orientcol_slice, frac_anis_slice, TRUE)
             vec  == IF a.lpf_soma_mask THEN soma.fiber_vec_slice ELSE bg.fiber_vec_slice
             clr  == IF a.lpf_soma_mask THEN soma.orientcol_slice ELSE bg.orientcol_slice
             fa   == IF a.lpf_soma_mask THEN soma.frac_anis_slice ELSE frac_anis_slice
         IN  [tag   |-> "processed",
              reads |-> IF a.lpf_soma_mask THEN {"fiber", "neuron"} ELSE {"fiber"},
              fiber_mask_slice  |-> bg.background,
              neuron_mask_slice |-> IF a.lpf_soma_mask THEN soma.background ELSE {},
              frac_anis_255     |-> fa,
              frangi_255        |-> [c \in TileVoxels |-> Score255(a.frangi_slice[c])],
              out   |-> [fiber_vec  |-> vec,
                         fiber_cmap |-> clr,
                         iso_fiber  |-> [c \in TileVoxels |-> AsUint8(1, build)],
                         frac_anis  |-> [c \in TileVoxels |-> AsUint8(fa[c], build)],
                         frangi     |-> [c \in TileVoxels |->
                                           AsUint8(Score255(a.frangi_slice[c]), build)],
                         fiber_msk  |-> [c \in TileVoxels |->
                                           AsUint8(FiberMskValue(bg.background, c), build)],
                         neuron_msk |-> IF a.lpf_soma_mask
                                        THEN [c \in TileVoxels |->
                                                AsUint8(Uint8Max * Bool(c \in soma.background),
                                                        build)]
                                        ELSE <<>>]]

\* parallel_frangi_on_slices on an image of one tile: the volumes, the one
\* fiber_analysis call, the saving
FrangiOnOneTile(a, build) ==
    LET shp == <<1, TileVox, 1>>
        one == <<<<1, 1>>, <<1, 1>>, <<1, 1>>>>
        r   == InitFrangiVolumes(shp, shp, one, 0, NoneInt, a.lpf_soma_mask, NoneInt, BigRam)
        v   == [n \in VolNames |->
                  CASE n = "iso_fiber"  -> r.iso_fiber_img
                    [] n = "frangi"     -> r.frangi_img
                    [] n = "fiber_msk"  -> r.fiber_msk
                    [] n = "frac_anis"  -> r.frac_anis_img
                    [] n = "neuron_msk" -> r.neuron_msk
                    [] n = "fiber_vec"  -> r.fiber_vec_img
                    [] n = "fiber_cmap" -> r.fiber_vec_clr]
    IN  [tag        |-> "returned",
         neuron_msk |-> r.neuron_msk,
         tile       |-> FiberAnalysis(a, build),
         save_dir   |-> SaveFrangiArrays(r.fiber_dset_path, v)]

\* the tiles tried: a tile without signal, and the tiles with signal, whose
\* neuron slice only matters with soma masking
TileCalls ==
    {[fn |-> "parallel_frangi_on_slices", fiber_slice_max |-> 0,
      frangi_slice |-> [c \in TileVoxels |-> 0], li |-> 0, eigenval |-> <<0, 0, 0>>,
      lpf_soma_mask |-> sm, iso_neuron_slice |-> [c \in TileVoxels |-> 0], yen |-> 1] :
        sm \in BOOLEAN}
    \cup
    {[fn |-> "parallel_frangi_on_slices", fiber_slice_max |-> 1,
      frangi_slice |-> fr, li |-> t, eigenval |-> e,
      lpf_soma_mask |-> FALSE, iso_neuron_slice |-> [c \in TileVoxels |-> 0], yen |-> 1] :
        fr \in [TileVoxels -> 0..MaxGrey], t \in 0..(MaxGrey + 1), e \in TileEigenVals}
    \cup
    {[fn |-> "parallel_frangi_on_slices", fiber_slice_max |-> 1,
      frangi_slice |-> fr, li |-> t, eigenval |-> e,
      lpf_soma_mask |-> TRUE, iso_neuron_slice |-> nr, yen |-> 1] :
        fr \in [TileVoxels -> 0..MaxGrey], t \in 0..(MaxGrey + 1), e \in TileEigenVals,
        nr \in [TileVoxels -> 0..1]}

\* ---- init_frangi_volumes, init_odf_volumes ----

\* NumPy and h5py refuse a shape with a negative axis, np.memmap an empty one
ShapeAllowed(shape) == \A k \in DOMAIN shape : shape[k] > 0

CallOfInitFrangiVolumes(a) ==
    IF ShapeAllowed(DsetShape(a.img_shape, a.slice_shape, a.resize_ratio, a.z_min, a.z_max))
    THEN [tag  |-> "returned",
          vols |-> InitFrangiVolumes(a.img_shape, a.slice_shape, a.resize_ratio,
                                     a.z_min, a.z_max, a.lpf_soma_mask, NoneInt, BigRam)]
    ELSE ValueError("negative dimensions are not allowed")

CallOfInitOdfVolumes(a) ==
    [tag  |-> "returned",
     vols |-> InitOdfVolumes(a.vec_img_shape, a.odf_scale, a.odf_degrees, NoneInt, BigRam)]

\* what an entry of init_odf_volumes holds as its array
ArrayOf(v) == IF v.tag = "tuple" THEN v.fst ELSE v

ShapeCalls ==
    {a \in [fn : {"init_frangi_volumes"},
            img_shape : {<<z, y, 1>> : z \in 1..MaxZ, y \in 1..MaxY},
            slice_shape : {<<z, y, 1>> : z \in 1..MaxZ, y \in 1..MaxY},
            resize_ratio : {<<rz, ry, ry>> : rz \in RszRatios, ry \in RszRatios},
            z_min : 0..MaxZMin, z_max : {NoneInt} \cup 1..MaxZ,
            lpf_soma_mask : BOOLEAN] :
        /\ \A k \in 1..3 :
              a.slice_shape[k] <= Resize(a.resize_ratio[k], a.img_shape[k])
        /\ a.z_min < a.img_shape[1]
        /\ a.z_max # NoneInt => (a.z_min < a.z_max /\ a.z_max <= a.img_shape[1])}
    \cup
    [fn : {"init_odf_volumes"},
     vec_img_shape : {<<z, y, 1>> : z \in 1..MaxZ, y \in 1..MaxY},
     odf_scale : 1..MaxScaleUm, odf_degrees : {2, 6}]

\* ---- the calls ----

FnCalls ==
    {[fn |-> "compute_fractional_anisotropy", eigenval |-> e] : e \in EigenVals}
    \cup
    {[fn |-> "mask_background", img |-> im, thresh |-> t,
      fiber_vec_slice |-> [c \in Voxels |-> c],
      orientcol_slice |-> [c \in Voxels |-> 100 + c],
      frac_anis_slice |-> fa, invert |-> inv] :
        im \in [Voxels -> 0..MaxGrey], t \in 0..(MaxGrey + 1),
        fa \in {PyNone, [c \in Voxels |-> 200 + c]}, inv \in BOOLEAN}
    \cup
    {[fn |-> "load_microscopy_image", fmt |-> f, content |-> c, neuron_mask |-> nm] :
        f \in Extensions, c \in Contents, nm \in BOOLEAN}
    \cup
    {[fn |-> "save_odf_arrays", odf_scale_um |-> um] : um \in 1..MaxScaleUm}
    \cup
    TileCalls
    \cup
    ShapeCalls

InitFn ==
    /\ VsIdle
    /\ PassIdle
    /\ OdfIdle
    /\ fn_call \in FnCalls
    /\ fn_ret = NotCalled

CallFracAnis ==
    /\ fn_call.fn = "compute_fractional_anisotropy"
    /\ fn_ret = NotCalled
    /\ fn_ret' = ComputeFractionalAnisotropy(fn_call.eigenval)
    /\ UNCHANGED <<vs_vars, fn_call, in_vars, pass_vars, odf_vars>>

CallMaskBackground ==
    /\ fn_call.fn = "mask_background"
    /\ fn_ret = NotCalled
    /\ fn_ret' = MaskBackground(fn_call.img, fn_call.thresh, fn_call.fiber_vec_slice,
                                fn_call.orientcol_slice, fn_call.frac_anis_slice,
                                fn_call.invert)
    /\ UNCHANGED <<vs_vars, fn_call, in_vars, pass_vars, odf_vars>>

CallLoadImage ==
    /\ fn_call.fn = "load_microscopy_image"
    /\ fn_ret = NotCalled
    /\ fn_ret' = LoadMicroscopyImage(fn_call.fmt, fn_call.content, fn_call.neuron_mask)
    /\ UNCHANGED <<vs_vars, fn_call, in_vars, pass_vars, odf_vars>>

CallSaveOdfArrays ==
    /\ fn_call.fn = "save_odf_arrays"
    /\ fn_ret = NotCalled
    /\ fn_ret' = SaveOdfArrays(fn_call.odf_scale_um)
    /\ UNCHANGED <<vs_vars, fn_call, in_vars, pass_vars, odf_vars>>

CallFrangiOnOneTile ==
    /\ fn_call.fn = "parallel_frangi_on_slices"
    /\ fn_ret = NotCalled
    /\ \E build \in Builds : fn_ret' = FrangiOnOneTile(fn_call, build)
    /\ UNCHANGED <<vs_vars, fn_call, in_vars, pass_vars, odf_vars>>

CallInitVolumes ==
    /\ fn_call.fn \in {"init_frangi_volumes", "init_odf_volumes"}
    /\ fn_ret = NotCalled
    /\ fn_ret' = IF fn_call.fn = "init_frangi_volumes"
                 THEN CallOfInitFrangiVolumes(fn_call)
                 ELSE CallOfInitOdfVolumes(fn_call)
    /\ UNCHANGED <<vs_vars, fn_call, in_vars, pass_vars, odf_vars>>

NextFn ==
    \/ CallFracAnis
    \/ CallMaskBackground
    \/ CallLoadImage
    \/ CallSaveOdfArrays
    \/ CallFrangiOnOneTile
    \/ CallInitVolumes

SpecFn == InitFn /\ [][NextFn]_vars

-----
(* Properties *)

\* the indices of a range, not clamped to any array
RangeIdx(rng) ==
    {<<z, y, x>> : z \in rng[1].start..(rng[1].stop - 1),
                   y \in rng[2].start..(rng[2].stop - 1),
                   x \in rng[3].start..(rng[3].stop - 1)}

\* the indices of volume n inside the output range of tile i
OutIdx(i, n) ==
    IF n \in VecNames THEN VecIdx(RangeIdx(plan.rng_out_lst[i]))
    ELSE RangeIdx(plan.rng_out_lst[i])

Allocated == vols # <<>>

\* C1: init_volume returns an HDF5 dataset with a file path exactly when
\* itemsize * prod(shape) >= ceiling, and a memory map with path None exactly
\* when it is below; the ceiling is max_ram_mb * 1024^2 when given, else the
\* available RAM.
C1_BackingBySize ==
    vs_ret # NotCalled =>
        LET size    == (IF vs_call.dtype = "uint8" THEN 1 ELSE 4)
                       * vs_call.shape[1] * vs_call.shape[2] * vs_call.shape[3]
            ceiling == IF vs_call.mrm = NoneInt THEN vs_call.avail
                       ELSE vs_call.mrm * 1048576
        IN  /\ (vs_ret.fst.tag = "hdf5" /\ vs_ret.snd # NoPath) <=> (size >= ceiling)
            /\ (vs_ret.fst.tag = "memmap" /\ vs_ret.snd = NoPath) <=> (size < ceiling)

\* a call whose size equals the ceiling has returned a disk-resident dataset
C1_Witness ==
    /\ vs_ret # NotCalled
    /\ vs_call.mrm = 1
    /\ vs_call.dtype = "uint8"
    /\ vs_call.shape = <<1, 1024, 1024>>
    /\ vs_ret.fst.tag = "hdf5"

\* C2: every output volume handed to a worker is the array object itself (a
\* memory map or an HDF5 dataset): the volumes of init_frangi_volumes and the
\* seven volumes of init_odf_volumes, none of which is a (volume, path) pair.
C2_VolumesAreArrays ==
    /\ Allocated => \A n \in VolNames : IsArray(vols[n]) \/ vols[n] = PyNone
    /\ \A k \in Scales :
          odf_w[k].pc # "pending" => \A n \in OdfNames : IsArray(odf_w[k].vols[n])

\* C3: no output coordinate is written by two distinct tiles: the planned
\* output ranges are pairwise disjoint and so are the sets of indices the
\* write-backs of distinct tiles have written, in every interleaving.
C3_DisjointWrites ==
    /\ \A i, j \in PlannedTiles :
          i # j => RangeIdx(plan.rng_out_lst[i]) \cap RangeIdx(plan.rng_out_lst[j]) = {}
    /\ \A i, j \in Tiles : i # j => wrote[i] \cap wrote[j] = {}

\* two tiles of one pass have both written their output
C3_Witness ==
    \E i, j \in Tiles :
        /\ i # j
        /\ tile[i] = "done" /\ wrote[i] # {}
        /\ tile[j] = "done" /\ wrote[j] # {}
        /\ halo > 0

\* C4: the union of the output ranges of the planned tiles equals the index
\* set of the output volumes allocated by init_frangi_volumes.
C4_TilingCoversVolumes ==
    Allocated =>
        UNION {RangeIdx(plan.rng_out_lst[i]) : i \in PlannedTiles} = AllIdx(dset_shape)

\* C5: a fiber_analysis call changes the output volumes only inside its own
\* output range (with the component axis 0..2 for the vector and colormap
\* volumes), and the input image is never written.
C5_WriteBackFrame ==
    [][/\ img' = img
       /\ (Allocated /\ vols' = vols) =>
             \A n \in VolNames : \A c \in DOMAIN data[n] :
                 data'[n][c] # data[n][c] =>
                     \E i \in Tiles : /\ tile[i] = "filtered"
                                      /\ tile'[i] = "done"
                                      /\ c \in OutIdx(i, n)]_vars

\* a tile has written its output range and a voxel outside it is untouched
C5_Witness ==
    /\ Allocated
    /\ \E i \in Tiles :
          /\ tile[i] = "done"
          /\ wrote[i] # {}
          /\ \E c \in DOMAIN data["fiber_vec"] :
                c \notin OutIdx(i, "fiber_vec") /\ data["fiber_vec"][c] = Fill

\* C6: a tile is skipped exactly when its halo-inclusive fiber slice is
\* uniformly zero; with a non-zero voxel of either sign it is filtered.
C6_SkipIffAllZero ==
    \A i \in Tiles :
        tile[i] \in {"skipped", "filtered", "done"} =>
            (tile[i] = "skipped"
                <=> \A c \in Box(plan.rng_in_lst[i], img_shape) : img[c] = 0)

\* C7: under a forced z-range the block written to each volume has the
\* z-extent of rng_out, rng_out lies within the allocated depth, and no
\* write-back fails on a shape mismatch.
C7_CropWriteBackFits ==
    \A i \in Tiles :
        /\ tile[i] # "write_error"
        /\ tile[i] \in {"filtered", "done"} =>
              /\ SrcDepth(plan.rng_out_lst[i], z_sel) = CropShape(plan.rng_out_lst[i])[1]
              /\ plan.rng_out_lst[i][1].stop <= dset_shape[1]

\* C8: exactly one fiber_analysis call is submitted per planned tile, with the
\* i-th entries of the four per-tile lists; when the pool is left every tile
\* of range(tot_slice_num) has been processed once.
C8_OneCallPerTile ==
    /\ \A i \in Tiles :
          /\ runs[i] <= 1
          /\ tile[i] # "pending" =>
                /\ runs[i] = 1
                /\ targs[i].rng_in = plan.rng_in_lst[i]
                /\ targs[i].rng_in_neu = plan.rng_in_neu_lst[i]
                /\ targs[i].rng_out = plan.rng_out_lst[i]
                /\ targs[i].pad_mat = plan.pad_mat_lst[i]
    /\ pc \in {"save", "done"} =>
          /\ Tiles = PlannedTiles
          /\ \A i \in PlannedTiles : runs[i] = 1

\* a pass of several tiles has completed
C8_Witness == pc = "done" /\ Cardinality(Tiles) >= 2

\* C9: save_frangi_arrays and the return happen only after every tile worker
\* has returned, and a tile's write-back happens after its own computation.
C9_JoinBarrier ==
    /\ (pc \in {"save", "done"} \/ save_dir # {}) =>
          /\ Tiles = PlannedTiles
          /\ \A i \in Tiles : tile[i] \in {"done", "skipped"}
    /\ \A i \in Tiles : wrote[i] # {} => tile[i] = "done"

\* the artifacts of a pass of several tiles have been saved
C9_Witness == save_dir # {} /\ Cardinality(Tiles) >= 2

\* C10: when a fiber_analysis call raises, the pass does not leave the pool
\* normally: the failure reaches the caller, the tile is not run again, and
\* save_frangi_arrays is not executed.
C10_FailFast ==
    raised # {} =>
        /\ pc \in {"parallel", "failed"}
        /\ pc = "parallel" => ~JoinReady
        /\ save_dir = {}
        /\ \A i \in raised : runs[i] = 1 /\ tile[i] \in {"raised", "write_error"}

\* a tile has raised after another one wrote its output, and the pass failed
C10_Witness ==
    /\ pc = "failed"
    /\ raised # {}
    /\ \E i \in Tiles : tile[i] = "done"

C13_OneCallPerScale ==
    /\ \A k \in Scales : odf_w[k].runs <= 1
    /\ Cardinality(OdfRunning)
          <= (IF odf_in.num_cpu <= Len(odf_in.odf_scales_um)
              THEN odf_in.num_cpu ELSE Len(odf_in.odf_scales_um))
    /\ odf_pc \in {"done", "failed"} => \A k \in Scales : odf_w[k].runs = 1

\* C14: the calls of two distinct requested super-voxel sides allocate
\* scratch volumes with distinct names, also when both sides round up to the
\* same size in pixels.
C14_DisjointScratchNames ==
    \A k, l \in Scales :
        (/\ odf_w[k].pc # "pending"
         /\ odf_w[l].pc # "pending"
         /\ odf_w[k].odf_scale_um # odf_w[l].odf_scale_um)
        => \A n, m \in OdfNames :
              ScratchName(odf_w[k].vols[n]) # ScratchName(odf_w[l].vols[m])

\* C15: compute_fractional_anisotropy returns a value in [0, 1] for every
\* eigenvalue triplet, mixed signs included: the returned value is the root
\* of the ratio of the summed squared pairwise differences to twice the
\* summed squares, that ratio is at most 1, and the all-zero triplet gives 0.
C15_FracAnisBounds ==
    (fn_ret # NotCalled /\ fn_call.fn = "compute_fractional_anisotropy") =>
        LET l == fn_call.eigenval
            diffs == (l[1] - l[2]) * (l[1] - l[2]) + (l[1] - l[3]) * (l[1] - l[3])
                     + (l[2] - l[3]) * (l[2] - l[3])
            squares == l[1] * l[1] + l[2] * l[2] + l[3] * l[3]
        IN  /\ fn_ret.den > 0
            /\ 0 <= fn_ret.num /\ fn_ret.num <= fn_ret.den
            /\ squares # 0 => (fn_ret.num * 2 * squares = diffs * fn_ret.den
                               /\ diffs <= 2 * squares)
            /\ squares = 0 => fn_ret.num = 0

\* C16: mask_background zeroes the orientation vector and the colormap at
\* exactly the voxels of the background mask when invert is False, at exactly
\* the complementary voxels when invert is True, and leaves every other voxel
\* of both arrays unchanged.
C16_MaskingInvariance ==
    (fn_ret # NotCalled /\ fn_call.fn = "mask_background") =>
        LET mask   == {c \in Voxels : fn_call.img[c] < fn_call.thresh}
            zeroed == IF fn_call.invert THEN Voxels \ mask ELSE mask
        IN  \A c \in Voxels :
                /\ c \in zeroed =>
                      fn_ret.fiber_vec_slice[c] = 0 /\ fn_ret.orientcol_slice[c] = 0
                /\ c \notin zeroed =>
                      /\ fn_ret.fiber_vec_slice[c] = fn_call.fiber_vec_slice[c]
                      /\ fn_ret.orientcol_slice[c] = fn_call.orientcol_slice[c]
                      /\ fn_ret.fiber_vec_slice[c] # 0
                      /\ fn_ret.orientcol_slice[c] # 0

\* an inverted mask has zeroed some voxels of a slice and kept others
C16_Witness ==
    /\ fn_ret # NotCalled
    /\ fn_call.fn = "mask_background"
    /\ fn_call.invert
    /\ \E c, d \in Voxels :
          /\ fn_call.img[c] < fn_call.thresh
          /\ fn_ret.fiber_vec_slice[c] # 0
          /\ fn_call.img[d] >= fn_call.thresh
          /\ fn_ret.fiber_vec_slice[d] = 0

\* C17: save_frangi_arrays handles the orientation vectors by exactly one
\* route: a disk-resident volume (fiber_dset_path not None) has its file moved
\* to fiber_vec_<img_name>.h5 and is not given to save_array; a memory-backed
\* one (fiber_dset_path None) is saved through save_array as npy and nothing
\* is moved.  fiber_dset_path is not None exactly when init_volume chose the
\* disk backing for the vector volume.
C17_VectorSaveRoute ==
    /\ Allocated => (fiber_dset_path # NoPath <=> vols["fiber_vec"].tag = "hdf5")
    /\ pc = "done" =>
          LET moved == {f \in save_dir : f.how = "move"}
              npy   == {f \in save_dir : f.file = "fiber_vec_img.npy"}
          IN  IF vols["fiber_vec"].tag = "hdf5"
              THEN /\ moved = {[file |-> "fiber_vec_img.h5", how |-> "move",
                                backing |-> "hdf5", from |-> "tmp/fiber_vec.h5"]}
                   /\ npy = {}
              ELSE /\ moved = {}
                   /\ npy = {[file |-> "fiber_vec_img.npy", how |-> "save_array",
                              backing |-> "memmap"]}

\* a pass whose vector volume was disk-resident has saved its artifacts
C17_Witness ==
    /\ pc = "done"
    /\ fiber_dset_path # NoPath
    /\ vols["frangi"].tag = "memmap"
    /\ \E f \in save_dir : f.how = "move"

C19_OdfScaleCeil ==
    \A k \in Scales :
        odf_w[k].pc # "pending" =>
            /\ odf_w[k].odf_scale * odf_in.px_size_iso >= odf_w[k].odf_scale_um
            /\ odf_w[k].odf_scale_um > (odf_w[k].odf_scale - 1) * odf_in.px_size_iso
            /\ odf_w[k].odf_scale >= 1

\* a side that is not a multiple of the pixel size has been converted
C19_Witness ==
    \E k \in Scales :
        /\ odf_w[k].pc # "pending"
        /\ odf_in.px_size_iso = 2
        /\ odf_w[k].odf_scale_um = 3
        /\ odf_w[k].odf_scale = 2

\* C20: load_microscopy_image accepts a .npy file both as a microscopy image
\* (returned with skip_frangi = False) and as a 4D array of orientation
\* vectors (returned with skip_frangi = True), and raises ValueError only for
\* unsupported formats.
C20_NpyImageOrVectors ==
    (fn_ret # NotCalled /\ fn_call.fn = "load_microscopy_image") =>
        /\ (fn_call.fmt = "npy" /\ fn_call.content.holds = "image") =>
              (fn_ret.tag = "loaded" /\ ~fn_ret.skip_frangi)
        /\ (fn_call.fmt = "npy" /\ fn_call.content.holds = "vectors") =>
              (fn_ret.tag = "loaded" /\ fn_ret.skip_frangi)
        /\ fn_ret.tag = "ValueError" =>
              fn_call.fmt \notin {"npy", "NPY", "tif", "tiff", "yml"}

\* C21: save_odf_arrays completes without error and writes six artifacts
\* through save_array, the background and the ODF coefficients as NIfTI
\* files and the four dispersion-index maps as TIFF files, and every call it
\* makes gives save_array only parameters that save_array has.
C21_SaveOdfArraysCompletes ==
    (fn_ret # NotCalled /\ fn_call.fn = "save_odf_arrays") =>
        /\ fn_ret.tag = "returned"
        /\ Cardinality(fn_ret.files) = 6
        /\ Cardinality({f \in fn_ret.files : f.file \in
               {"bg_mrtrixview_sv" \o ToString(fn_call.odf_scale_um) \o ".nii",
                "odf_mrtrixview_sv" \o ToString(fn_call.odf_scale_um) \o ".nii"}}) = 2
        /\ \A i \in DOMAIN fn_ret.calls :
              fn_ret.calls[i].args
                  \subseteq {"fname", "save_dir", "nd_array", "px_size", "format"}

\* C22: the spherical-harmonics normalization factors are computed exactly
\* once per ODF pass, before any scale worker starts; every scale worker is
\* given that same object, and nothing recomputes or replaces it afterwards.
C22_NormFactorsOnce ==
    /\ [](/\ odf_pc # "start" => (odf_norm # NotCalled /\ odf_norm.obj = 1)
          /\ odf_pc = "start" => (odf_norm = NotCalled /\ odf_w = <<>>)
          /\ \A k \in Scales : odf_w[k].pc # "pending" =>
                /\ odf_norm # NotCalled
                /\ odf_w[k].odf_norm = odf_norm)
    /\ [][/\ odf_norm # NotCalled => odf_norm' = odf_norm
          /\ \A k \in Scales : odf_w[k].pc # "pending" =>
                (k \in DOMAIN odf_w' /\ odf_w'[k].odf_norm = odf_w[k].odf_norm)]_vars

\* two scale workers have started, both holding the one factors object
C22_Witness ==
    /\ Cardinality({k \in Scales : odf_w[k].pc # "pending"}) = 2
    /\ \A k \in Scales : odf_w[k].odf_norm = odf_norm
    /\ odf_norm # NotCalled
    /\ odf_norm.obj = 1

\* the one-tile pass has returned and its tile had signal
TileProcessed ==
    /\ fn_ret # NotCalled
    /\ fn_call.fn = "parallel_frangi_on_slices"
    /\ fn_ret.tile.tag = "processed"

\* the voxels the vesselness threshold marks as background
VesselnessBackground == {c \in TileVoxels : fn_call.frangi_slice[c] < fn_call.li}

\* the voxels the threshold on the neuron channel marks as soma
SomaForeground ==
    IF fn_call.lpf_soma_mask
    THEN {c \in TileVoxels : ~(fn_call.iso_neuron_slice[c] < fn_call.yen)}
    ELSE {}

\* C23: after fiber_analysis processes a tile, every voxel that
\* the vesselness threshold marks as background has a zero orientation
\* vector, a zero colormap value and a zero fractional-anisotropy value in the
\* written outputs.
C23_BackgroundZeroedWithFracAnis ==
    TileProcessed =>
        \A c \in VesselnessBackground :
            /\ fn_ret.tile.out.fiber_vec[c] = 0
            /\ fn_ret.tile.out.fiber_cmap[c] = 0
            /\ fn_ret.tile.out.frac_anis[c] = 0

\* the soma-mask artifacts among the saved files
SomaMaskFiles == {f \in fn_ret.save_dir : f.file = "neuron_msk_" \o ImgName \o ".tif"}

\* C24: the soma mask exists exactly when soma masking is enabled. With
\* lpf_soma_mask set, neuron_msk is allocated, a processed tile reads the
\* neuron channel, zeroes vector, colormap and fractional anisotropy on the
\* thresholded foreground and writes its part of neuron_msk, and the mask is
\* saved; without it, neuron_msk is None, the tile neither reads the neuron
\* channel nor writes a soma mask, and no soma-mask artifact is saved.
C24_SomaMaskIffEnabled ==
    (fn_ret # NotCalled /\ fn_call.fn = "parallel_frangi_on_slices") =>
        IF fn_call.lpf_soma_mask
        THEN /\ IsArray(fn_ret.neuron_msk)
             /\ Cardinality(SomaMaskFiles) = 1
             /\ TileProcessed =>
                   /\ "neuron" \in fn_ret.tile.reads
                   /\ DOMAIN fn_ret.tile.out.neuron_msk = TileVoxels
                   /\ \A c \in TileVoxels :
                         IF c \in SomaForeground
                         THEN /\ fn_ret.tile.out.fiber_vec[c] = 0
                              /\ fn_ret.tile.out.fiber_cmap[c] = 0
                              /\ fn_ret.tile.out.frac_anis[c] = 0
                              /\ fn_ret.tile.out.neuron_msk[c] = Uint8Max
                         ELSE fn_ret.tile.out.neuron_msk[c] = 0
        ELSE /\ fn_ret.neuron_msk = PyNone
             /\ SomaMaskFiles = {}
             /\ "neuron" \notin fn_ret.tile.reads
             /\ TileProcessed => fn_ret.tile.out.neuron_msk = <<>>

\* a tile processed with soma masking, part soma and part not, on a voxel
\* the vesselness threshold keeps
C24_Witness ==
    /\ TileProcessed
    /\ fn_call.lpf_soma_mask
    /\ SomaMaskFiles # {}
    /\ \E c \in SomaForeground \ VesselnessBackground :
          fn_ret.tile.out.neuron_msk[c] = Uint8Max
    /\ \E c \in TileVoxels \ (SomaForeground \cup VesselnessBackground) :
          /\ fn_ret.tile.out.neuron_msk[c] = 0
          /\ fn_ret.tile.out.fiber_vec[c] # 0

\* C26: in a processed tile the written fiber mask is the complement of the
\* background mask and agrees with the vectors: every fiber_msk voxel is 0
\* (background) or 255 (fiber), it is 0 exactly on the voxels below the
\* vesselness threshold, and there the written vector and colormap are zero.
C26_FiberMaskComplement ==
    TileProcessed =>
        \A c \in TileVoxels :
            /\ fn_ret.tile.out.fiber_msk[c] \in {0, Uint8Max}
            /\ fn_ret.tile.out.fiber_msk[c] = 0 <=> c \in VesselnessBackground
            /\ fn_ret.tile.out.fiber_msk[c] = 0 =>
                  /\ fn_ret.tile.out.fiber_vec[c] = 0
                  /\ fn_ret.tile.out.fiber_cmap[c] = 0

\* a processed tile with a background voxel and a fiber voxel
C26_Witness ==
    /\ TileProcessed
    /\ \E c \in VesselnessBackground : fn_ret.tile.out.fiber_msk[c] = 0
    /\ \E c \in TileVoxels \ VesselnessBackground :
          /\ fn_ret.tile.out.fiber_msk[c] = Uint8Max
          /\ fn_ret.tile.out.fiber_vec[c] # 0

\* C27: the 8-bit fractional-anisotropy and vesselness rasters never wrap
\* around: for every voxel of a processed tile 255 * frac_anis and
\* 255 * vesselness lie in [0, 255] before the cast to uint8, and the
\* stored byte is the value that was cast.
C27_NoUint8Wrap ==
    TileProcessed =>
        \A c \in TileVoxels :
            /\ 0 <= fn_ret.tile.frac_anis_255[c]
            /\ fn_ret.tile.frac_anis_255[c] <= Uint8Max
            /\ fn_ret.tile.out.frac_anis[c] = fn_ret.tile.frac_anis_255[c]
            /\ 0 <= fn_ret.tile.frangi_255[c]
            /\ fn_ret.tile.frangi_255[c] <= Uint8Max
            /\ fn_ret.tile.out.frangi[c] = fn_ret.tile.frangi_255[c]

\* C25: for a 3D single-channel microscopy image load_microscopy_image
\* forces soma masking off whatever the --neuron-mask flag says, so that the
\* filtering pass is configured without soma mask; for an input with a
\* channel axis the flag is left as the user set it.
C25_GreyImageNoSomaMask ==
    (fn_ret # NotCalled /\ fn_call.fn = "load_microscopy_image"
        /\ fn_ret.tag = "loaded") =>
        IF fn_call.content.ndim = 3
        THEN fn_ret.neuron_mask = FALSE
        ELSE fn_ret.neuron_mask = fn_call.neuron_mask

\* a grey TIFF image loaded with --neuron-mask given
C25_Witness ==
    /\ fn_ret # NotCalled
    /\ fn_call.fn = "load_microscopy_image"
    /\ fn_ret.tag = "loaded"
    /\ fn_call.fmt = "tif"
    /\ fn_call.content.ndim = 3
    /\ fn_call.neuron_mask
    /\ ~fn_ret.neuron_mask

\* C28: with a forced z_min > 0 and no z_max, init_frangi_volumes keeps all
\* rows from z_min to the end of the image: the output depth is the resized
\* (image depth - z_min) and z_sel is slice(z_min, image depth), however many
\* z-slabs the volume is tiled into; with z_min = 0 and no z_max the output
\* depth is the resized image depth and z_sel selects every row.
C28_ZMinKeepsRestOfImage ==
    (Allocated /\ z_max = NoneInt) =>
        IF z_min > 0
        THEN /\ vols["frangi"].shape[1] = Resize(plan.px_rsz_ratio[1], img_shape[1] - z_min)
             /\ z_sel = [start |-> z_min, stop |-> img_shape[1]]
        ELSE /\ vols["frangi"].shape[1] = Resize(plan.px_rsz_ratio[1], img_shape[1])
             /\ z_sel = [start |-> 0, stop |-> NoneInt]

=============================================================================
